---- MODULE Spec2Model ----
(***************************************************************************)
(* Vastu Architect: the layout planner (spatial_optimizer.generate_layout) *)
(* and the DXF drafting engine (vastu_engine.generate_ai_detailed_plan).   *)
(*                                                                         *)
(* Lengths are fixed-point numbers: one unit is 1/Scale metre, a third of  *)
(* a millimetre.  Every float expression of the source is evaluated in    *)
(* the source's order and rounded to the nearest unit, so proportional     *)
(* widths drift as floats do and round(x, 3) is a real rounding.           *)
(***************************************************************************)
EXTENDS Integers, Sequences, FiniteSets, TLC

\* ------------------------------------------------------------------ bounds
\* Longest list of requested rooms.
MaxRooms == 4
\* Most calls of generate_layout on the same Room records (SpecCalls).
MaxCalls == 2

\* ------------------------------------------------------------- fixed point
\* round(x, 3) keeps 10^3 steps per metre.
Milli == 1000
\* Units per metre: three units per millimetre, so no value is a rounding tie.
Scale == 3 * Milli

\* a / b rounded to the nearest unit (b > 0).
RoundDiv(a, b) ==
  LET q == a \div b
      r == a % b
  IN IF 2 * r >= b THEN q + 1 ELSE q

\* round(x, 3)
Round3(x) == (Scale \div Milli) * RoundDiv(x, Scale \div Milli)

RECURSIVE SumSeq(_)
SumSeq(s) == IF s = <<>> THEN 0 ELSE Head(s) + SumSeq(Tail(s))

\* ------------------------------------------------------------------- names
UpperCase == <<"A","B","C","D","E","F","G","H","I","J","K","L","M",
               "N","O","P","Q","R","S","T","U","V","W","X","Y","Z">>
LowerCase == <<"a","b","c","d","e","f","g","h","i","j","k","l","m",
               "n","o","p","q","r","s","t","u","v","w","x","y","z">>

\* The characters of each room name the model uses.
Chars(name) ==
  CASE name = "Living"    -> <<"L","i","v","i","n","g">>
    [] name = "Kitchen"   -> <<"K","i","t","c","h","e","n">>
    [] name = "MasterBed" -> <<"M","a","s","t","e","r","B","e","d">>
    [] name = "Toilet"    -> <<"T","o","i","l","e","t">>
    [] name = "Shaft"     -> <<"S","h","a","f","t">>
    [] name = "Duct"      -> <<"D","u","c","t">>
    [] name = "Store"     -> <<"S","t","o","r","e">>
    [] name = "Depot"     -> <<"D","e","p","o","t">>
    [] name = "Bath"      -> <<"B","a","t","h">>
    [] name = "MasterLiving" -> <<"M","a","s","t","e","r","L","i","v","i","n","g">>

\* str.lower(), on the characters
LowerChar(c) ==
  IF \E i \in 1..26 : UpperCase[i] = c
  THEN LowerCase[CHOOSE i \in 1..26 : UpperCase[i] = c]
  ELSE c

Lower(name) == [i \in 1..Len(Chars(name)) |-> LowerChar(Chars(name)[i])]

\* needle in hay
Contains(hay, needle) ==
  \E i \in 1..(Len(hay) - Len(needle) + 1) :
     SubSeq(hay, i, i + Len(needle) - 1) = needle

\* --------------------------------------------------------------- data model
\* Room.current_poly before any placement (None).
NoPoly == <<>>
\* Room.center before any placement (None).
NoCenter == <<>>

\* Room(name, min_dim, max_dim): the constructor.
Room(name, min_w, min_d, max_w, max_d) ==
  [name |-> name, min_w |-> min_w, min_d |-> min_d,
   max_w |-> max_w, max_d |-> max_d,
   current_poly |-> NoPoly, center |-> NoCenter]

\* shapely.geometry.box(minx, miny, maxx, maxy): the closed exterior ring,
\* counter-clockwise from the (maxx, miny) corner.
Box(minx, miny, maxx, maxy) ==
  << <<maxx, miny>>, <<maxx, maxy>>, <<minx, maxy>>, <<minx, miny>>,
     <<maxx, miny>> >>

\* (poly.centroid.x, poly.centroid.y) of a box
Centroid(minx, miny, maxx, maxy) ==
  << RoundDiv(minx + maxx, 2), RoundDiv(miny + maxy, 2) >>

\* The rooms a caller can request, in the order it lists them.  Sizes in
\* units: Living .. Toilet are the application's default rooms (0.8 and 1.2
\* times 4.5x5.0, 3.0x3.5, 4.0x4.5, 1.8x2.5 metres).
Catalogue ==
  << Room("Living",    10800, 12000, 16200, 18000),
     Room("Kitchen",    7200,  8400, 10800, 12600),
     Room("MasterBed",  9600, 10800, 14400, 16200),
     Room("Toilet",     4320,  6000,  6480,  9000),
     Room("Shaft",        28,  1000,    30,  1374),
     Room("Store",      3600,  1000,  3660,  1374),
     Room("Duct",          1,   400,     3,   600),
     Room("Depot",     32000,  1000, 39938,  1374),
     Room("Bath",          0,  6000,     0,  9000),
     Room("MasterLiving", 9000, 9600, 12000, 14400) >>

\* plot_size values a caller can pass: 12.0 x 15.0 metres, and two
\* degenerate plots.
Plots == { <<12 * Scale, 15 * Scale>>, <<0, 15 * Scale>>, <<12 * Scale, -Scale>> }

RECURSIVE SeqOfSet(_)
\* The members of a set of indices, ascending.
SeqOfSet(S) ==
  IF S = {} THEN <<>>
  ELSE LET m == CHOOSE x \in S : \A y \in S : x <= y
       IN <<m>> \o SeqOfSet(S \ {m})

\* Lists in which two rooms have the same name and sizes (the application
\* appends a room named "New Room", 3.0 x 3.0, at every click on Add Room):
\* a pair of equal rooms, alone and after Living.
TwinLists ==
  { <<Catalogue[i], Catalogue[i]>> : i \in {2, 6} }
    \cup { <<Catalogue[1], Catalogue[i], Catalogue[i]>> : i \in {2, 6} }

\* Every list of at most MaxRooms catalogue rooms, in catalogue order, and
\* the lists with twins.
RequestLists ==
  { [k \in 1..Len(SeqOfSet(S)) |-> Catalogue[SeqOfSet(S)[k]]] :
      S \in { T \in SUBSET (1..Len(Catalogue)) : Cardinality(T) <= MaxRooms } }
    \cup TwinLists

\* --------------------------------------------------- generate_layout: helpers
\* IsTopRoom without the "toilet" keyword.
IsTopRoomNoToilet(name) ==
  LET n == Lower(name)
  IN \/ Contains(n, <<"l","i","v","i","n","g">>)
     \/ Contains(n, <<"h","a","l","l">>)
     \/ Contains(n, <<"b","a","t","h">>)
     \/ Contains(n, <<"n","o","r","t","h">>)
     \/ Contains(n, <<"n","w">>)
     \/ Contains(n, <<"n","e">>)

\* 1. Classification (Top vs Bottom): the room goes to the top (north) row.
IsTopRoom(name) ==
  LET n == Lower(name)
  IN \/ Contains(n, <<"l","i","v","i","n","g">>)
     \/ Contains(n, <<"h","a","l","l">>)
     \/ Contains(n, <<"t","o","i","l","e","t">>)
     \/ Contains(n, <<"b","a","t","h">>)
     \/ Contains(n, <<"n","o","r","t","h">>)
     \/ Contains(n, <<"n","w">>)
     \/ Contains(n, <<"n","e">>)

\* 2. Sort order (Left to Right)
sort_key(name) ==
  LET n == Lower(name)
  IN IF Contains(n, <<"t","o","i","l","e","t">>) THEN 0
     ELSE IF Contains(n, <<"l","i","v","i","n","g">>) THEN 1
     ELSE IF Contains(n, <<"m","a","s","t","e","r">>) THEN 0
     ELSE IF Contains(n, <<"k","i","t","c","h","e","n">>) THEN 1
     ELSE 2

\* The references (indices into the requirements list) of the top row and
\* of the bottom row, in input order.
top_rooms(rooms) ==
  SelectSeq([i \in 1..Len(rooms) |-> i], LAMBDA i : IsTopRoom(rooms[i].name))

bottom_rooms(rooms) ==
  SelectSeq([i \in 1..Len(rooms) |-> i], LAMBDA i : ~IsTopRoom(rooms[i].name))

\* SortRow that leaves the row in input order.
SortRowAsGiven(rooms, row) == row

\* list.sort(key=sort_key): stable, ascending.
SortRow(rooms, row) ==
  SelectSeq(row, LAMBDA i : sort_key(rooms[i].name) = 0)
    \o SelectSeq(row, LAMBDA i : sort_key(rooms[i].name) = 1)
    \o SelectSeq(row, LAMBDA i : sort_key(rooms[i].name) = 2)

\* (r.min_w + r.max_w)/2 and (r.min_d + r.max_d)/2
RepWidth(r) == RoundDiv(r.min_w + r.max_w, 2)
RepDepth(r) == RoundDiv(r.min_d + r.max_d, 2)

\* a / b: <<quotient>>, or <<>> when Python raises ZeroDivisionError.
Divide(a, b) == IF b = 0 THEN <<>> ELSE << RoundDiv(a, b) >>

\* AvgDepth without the guard for an empty row.
AvgDepthUnguarded(rooms, row) ==
  Divide(SumSeq([k \in 1..Len(row) |-> RepDepth(rooms[row[k]])]), Len(row))

\* sum([...]) / len(row) if row else 0
AvgDepth(rooms, row) ==
  IF row = <<>> THEN <<0>>
  ELSE Divide(SumSeq([k \in 1..Len(row) |-> RepDepth(rooms[row[k]])]), Len(row))

\* sum([...]) if row else 1
TotalWidth(rooms, row) ==
  IF row = <<>> THEN Scale
  ELSE SumSeq([k \in 1..Len(row) |-> RepWidth(rooms[row[k]])])

\* h_top = (avg_d_top / total_avg_d) * p_d, total_avg_d replaced by 1 when 0
TopHeight(avg_d_top, avg_d_bottom, p_d) ==
  LET sum_d == avg_d_top + avg_d_bottom
      total_avg_d == IF sum_d = 0 THEN Scale ELSE sum_d
  IN RoundDiv(avg_d_top * p_d, total_avg_d)

\* render_w = (w_req / total_w) * p_w
RenderWidth(w_req, total_w, p_w) == Divide(w_req * p_w, total_w)

\* EndX that forgets the running x offset.
EndXNoOffset(i, n, current_x, render_w, p_w) == IF i = n THEN p_w ELSE render_w

\* EndX without the snap of the last room.
EndXNoSnap(i, n, current_x, render_w, p_w) == current_x + render_w

\* end_x = current_x + render_w, snapped to p_w for the last room of the row
EndX(i, n, current_x, render_w, p_w) ==
  IF i = n THEN p_w ELSE current_x + render_w

RECURSIVE PlaceRow(_, _, _, _, _, _, _, _)
\* The loop over one row from its i-th room on: each room gets its box and
\* its centre.  The result is the requirements list with those rooms
\* updated, and whether the loop was left by a ZeroDivisionError.
PlaceRow(rooms, row, i, current_x, total_w, p_w, y0, y1) ==
  IF i > Len(row) THEN [rooms |-> rooms, raised |-> FALSE]
  ELSE LET room == rooms[row[i]]
           render_w == RenderWidth(RepWidth(room), total_w, p_w)
       IN IF render_w = <<>> THEN [rooms |-> rooms, raised |-> TRUE]
          ELSE LET end_x == EndX(i, Len(row), current_x, render_w[1], p_w)
                   placed == [room EXCEPT
                                !.current_poly = Box(current_x, y0, end_x, y1),
                                !.center = Centroid(current_x, y0, end_x, y1)]
               IN PlaceRow([rooms EXCEPT ![row[i]] = placed], row, i + 1, end_x,
                           total_w, p_w, y0, y1)

\* generate_layout(plot_size, requirements, constraints): the Room records
\* as it leaves them, the list it returns and how it ends.  The bottom row
\* is processed before the top row, so an error in the top row leaves the
\* bottom row's records changed.
Layout(plot, rooms) ==
  LET p_w == plot[1]
      p_d == plot[2]
      top == SortRow(rooms, top_rooms(rooms))
      bottom == SortRow(rooms, bottom_rooms(rooms))
      avg_d_top == AvgDepth(rooms, top)
      avg_d_bottom == AvgDepth(rooms, bottom)
      Failed(heap) == [rooms |-> heap, placed |-> <<>>,
                       outcome |-> "ZeroDivisionError"]
  IN IF avg_d_top = <<>> \/ avg_d_bottom = <<>> THEN Failed(rooms)
     ELSE LET h_top == TopHeight(avg_d_top[1], avg_d_bottom[1], p_d)
              h_bottom == p_d - h_top
              south == PlaceRow(rooms, bottom, 1, 0, TotalWidth(rooms, bottom),
                                p_w, 0, h_bottom)
          IN IF south.raised THEN Failed(south.rooms)
             ELSE LET north == PlaceRow(south.rooms, top, 1, 0,
                                        TotalWidth(rooms, top), p_w, h_bottom, p_d)
                  IN IF north.raised THEN Failed(north.rooms)
                     ELSE [rooms |-> north.rooms, placed |-> bottom \o top,
                           outcome |-> "returned"]

\* ------------------------------------------------ vastu_engine: dictionaries
\* A dict, as its items in insertion order.
DictHas(d, k) == \E i \in 1..Len(d) : d[i].key = k
DictGet(d, k) == d[CHOOSE i \in 1..Len(d) : d[i].key = k].val
\* d[k] = v: a new key is appended, an old key keeps its place.
DictSet(d, k, v) ==
  IF DictHas(d, k)
  THEN [i \in 1..Len(d) |-> IF d[i].key = k THEN [key |-> k, val |-> v] ELSE d[i]]
  ELSE Append(d, [key |-> k, val |-> v])

\* --------------------------------------------------- vastu_engine: geometry
Abs(x) == IF x < 0 THEN -x ELSE x

\* WALL_THICKNESS = 0.23
WALL_THICKNESS == (23 * Scale) \div 100
\* The 0.01 tolerance of the border tests.
Tolerance == Scale \div 100
\* add_door_swing(..., width=0.9)
DoorWidth == (9 * Scale) \div 10
\* The 0.2 added to the width in add_door_swing.
DoorMargin == (2 * Scale) \div 10
\* The 0.001 below which draw_wall_with_hatch draws nothing.
MinWallLength == Scale \div Milli

\* Python's order on (x, y) tuples.
TupleLeq(a, b) == a[1] < b[1] \/ (a[1] = b[1] /\ a[2] <= b[2])

\* seg = tuple(sorted([(round(p1[0], 3), round(p1[1], 3)), (round(p2[0], 3), round(p2[1], 3))]))
CanonicalSegment(p1, p2) ==
  LET a == << Round3(p1[1]), Round3(p1[2]) >>
      b == << Round3(p2[1]), Round3(p2[2]) >>
  IN IF TupleLeq(a, b) THEN <<a, b>> ELSE <<b, a>>

\* is_ext: both raw endpoints within the tolerance of one plot border line.
IsExt(p1, p2, plot_width, plot_height) ==
  \/ (p1[1] <= Tolerance /\ p2[1] <= Tolerance)
  \/ (p1[1] >= plot_width - Tolerance /\ p2[1] >= plot_width - Tolerance)
  \/ (p1[2] <= Tolerance /\ p2[2] <= Tolerance)
  \/ (p1[2] >= plot_height - Tolerance /\ p2[2] >= plot_height - Tolerance)

\* Classify without the promotion of a known segment to exterior.
ClassifyFirstSeen(drawn, seg, is_ext) ==
  IF ~DictHas(drawn, seg)
  THEN DictSet(drawn, seg, IF is_ext THEN "exterior" ELSE "interior")
  ELSE drawn

\* The update of drawn_segments for one edge: a new segment takes the edge's
\* class, a known segment turns exterior when the edge is exterior.
Classify(drawn, seg, is_ext) ==
  IF ~DictHas(drawn, seg)
  THEN DictSet(drawn, seg, IF is_ext THEN "exterior" ELSE "interior")
  ELSE IF is_ext THEN DictSet(drawn, seg, "exterior")
  ELSE drawn

\* math.dist(s[0], s[1]); every edge of a box is parallel to an axis.
SegLength(seg) == Abs(seg[2][1] - seg[1][1]) + Abs(seg[2][2] - seg[1][2])

\* (ux, uy) = (dx/L, dy/L) of an axis-parallel segment with L > 0.
UnitVector(p1, p2) ==
  IF p2[2] = p1[2]
  THEN << IF p2[1] > p1[1] THEN 1 ELSE -1, 0 >>
  ELSE << 0, IF p2[2] > p1[2] THEN 1 ELSE -1 >>

RECURSIVE AnalyseEdges(_, _, _, _, _, _)
\* The inner loop of the segment analysis: edges i.. of one room.
AnalyseEdges(acc, name, points, i, plot_width, plot_height) ==
  IF i > Len(points) - 1 THEN acc
  ELSE LET p1 == points[i]
           p2 == points[i + 1]
           seg == CanonicalSegment(p1, p2)
           is_ext == IsExt(p1, p2, plot_width, plot_height)
       IN AnalyseEdges(
            [drawn |-> Classify(acc.drawn, seg, is_ext),
             rsegs |-> DictSet(acc.rsegs, name,
                               Append(DictGet(acc.rsegs, name), seg))],
            name, points, i + 1, plot_width, plot_height)

RECURSIVE AnalyseRooms(_, _, _, _, _, _)
\* 1. SEGMENT ANALYSIS: the loop over the rooms from the k-th on.
AnalyseRooms(acc, heap, rooms, k, plot_width, plot_height) ==
  IF k > Len(rooms) THEN acc
  ELSE LET room == heap[rooms[k]]
       IN IF room.current_poly = NoPoly
          THEN AnalyseRooms(acc, heap, rooms, k + 1, plot_width, plot_height)
          ELSE AnalyseRooms(
                 AnalyseEdges([drawn |-> acc.drawn,
                               rsegs |-> DictSet(acc.rsegs, room.name, <<>>)],
                              room.name, room.current_poly, 1,
                              plot_width, plot_height),
                 heap, rooms, k + 1, plot_width, plot_height)

\* The (vx, vy) chosen for an exterior segment from its first endpoint.
OffsetDir(p1, plot_width, plot_height) ==
  IF p1[1] <= Tolerance THEN <<1, 0>>
  ELSE IF p1[1] >= plot_width - Tolerance THEN <<-1, 0>>
  ELSE IF p1[2] <= Tolerance THEN <<0, 1>>
  ELSE IF p1[2] >= plot_height - Tolerance THEN <<0, -1>>
  ELSE <<0, 0>>

\* draw_wall_with_hatch: the two wall lines (the hatch runs between them);
\* nothing is drawn for a segment shorter than 0.001.  offset_dir is <<>>
\* for None.
draw_wall_with_hatch(p1, p2, thickness, offset_dir) ==
  IF SegLength(<<p1, p2>>) < MinWallLength THEN <<>>
  ELSE LET u == UnitVector(p1, p2)
           nx == -u[2]
           ny == u[1]
           half == RoundDiv(thickness, 2)
       IN IF offset_dir = <<>>
          THEN << [o1 |-> <<p1[1] + nx * half, p1[2] + ny * half>>,
                   o2 |-> <<p2[1] + nx * half, p2[2] + ny * half>>,
                   i1 |-> <<p1[1] - nx * half, p1[2] - ny * half>>,
                   i2 |-> <<p2[1] - nx * half, p2[2] - ny * half>>,
                   seg |-> <<p1, p2>>, type |-> "interior"] >>
          ELSE << [o1 |-> p1, o2 |-> p2,
                   i1 |-> <<p1[1] + offset_dir[1] * thickness,
                            p1[2] + offset_dir[2] * thickness>>,
                   i2 |-> <<p2[1] + offset_dir[1] * thickness,
                            p2[2] + offset_dir[2] * thickness>>,
                   seg |-> <<p1, p2>>, type |-> "exterior"] >>

RECURSIVE DrawAllWalls(_, _, _, _)
\* 2. DRAW WALLS: the walls of drawn_segments' items from the k-th on.
DrawAllWalls(drawn, k, plot_width, plot_height) ==
  IF k > Len(drawn) THEN <<>>
  ELSE LET p1 == drawn[k].key[1]
           p2 == drawn[k].key[2]
           wall == IF drawn[k].val = "exterior"
                   THEN draw_wall_with_hatch(p1, p2, WALL_THICKNESS,
                                             OffsetDir(p1, plot_width, plot_height))
                   ELSE draw_wall_with_hatch(p1, p2, WALL_THICKNESS, <<>>)
       IN wall \o DrawAllWalls(drawn, k + 1, plot_width, plot_height)

RECURSIVE InsertByLength(_, _)
\* seg put into a list sorted longest-first, after the segments as long as it.
InsertByLength(sorted, seg) ==
  IF sorted = <<>> THEN <<seg>>
  ELSE IF SegLength(Head(sorted)) >= SegLength(seg)
       THEN <<Head(sorted)>> \o InsertByLength(Tail(sorted), seg)
       ELSE <<seg>> \o sorted

\* SortByLength that leaves the segments in the order of the room's ring.
SortByLengthAsGiven(sorted, segments) == sorted \o segments

RECURSIVE SortByLength(_, _)
\* segments.sort(key=math.dist, reverse=True): stable, longest first.
SortByLength(sorted, segments) ==
  IF segments = <<>> THEN sorted
  ELSE SortByLength(InsertByLength(sorted, Head(segments)), Tail(segments))

\* DoorFits with a strict comparison.
DoorFitsStrict(p1, p2, width) == SegLength(<<p1, p2>>) > width + DoorMargin

\* add_door_swing's length test: the door fits (the function goes on).
DoorFits(p1, p2, width) == ~(SegLength(<<p1, p2>>) < width + DoorMargin)

\* add_door_swing past its length test: the door leaf (the swing arc has
\* the leaf's start as centre and the width as radius).
DoorLeaf(p1, p2, width) ==
  LET u == UnitVector(p1, p2)
      mx == RoundDiv(p1[1] + p2[1], 2)
      my == RoundDiv(p1[2] + p2[2], 2)
      half == RoundDiv(width, 2)
      p_start == << mx - u[1] * half, my - u[2] * half >>
      leaf_end == << p_start[1] - u[2] * width, p_start[2] + u[1] * width >>
  IN [seg |-> <<p1, p2>>, p_start |-> p_start, leaf_end |-> leaf_end,
      radius |-> width]

\* DoorCandidate without the look-up in placed_doors.
DoorCandidateAnyInterior(drawn, placed, seg) == DictGet(drawn, seg) = "interior"

\* The test a segment passes before add_door_swing is tried on it.
DoorCandidate(drawn, placed, seg) ==
  DictGet(drawn, seg) = "interior" /\ seg \notin placed

RECURSIVE TryDoors(_, _, _, _)
\* The loop over one room's sorted segments from the k-th on: the segment
\* that gets the room's door, or <<>> when the loop ends without one.
TryDoors(drawn, placed, segments, k) ==
  IF k > Len(segments) THEN <<>>
  ELSE LET seg == segments[k]
       IN IF DoorCandidate(drawn, placed, seg) /\ DoorFits(seg[1], seg[2], DoorWidth)
          THEN <<seg>>
          ELSE TryDoors(drawn, placed, segments, k + 1)

\* room.current_poly.bounds
Bounds(poly) ==
  LET xs == { poly[i][1] : i \in 1..Len(poly) }
      ys == { poly[i][2] : i \in 1..Len(poly) }
      Min(S) == CHOOSE m \in S : \A v \in S : m <= v
      Max(S) == CHOOSE m \in S : \A v \in S : m >= v
  IN [minx |-> Min(xs), miny |-> Min(ys), maxx |-> Max(xs), maxy |-> Max(ys)]

RECURSIVE Annotate(_, _, _)
\* 4. ANNOTATIONS: the label of each room from the k-th on, with the width
\* dimension of a room on the south border and the depth dimension of a
\* room on the west border.
Annotate(heap, rooms, k) ==
  IF k > Len(rooms) THEN <<>>
  ELSE LET room == heap[rooms[k]]
       IN IF room.current_poly = NoPoly THEN Annotate(heap, rooms, k + 1)
          ELSE LET b == Bounds(room.current_poly)
                   rw == b.maxx - b.minx
                   rd == b.maxy - b.miny
               IN << [name |-> room.name, at |-> room.center,
                      height |-> RoundDiv((IF rw < rd THEN rw ELSE rd) * 8, 100),
                      width_dim |-> IF b.miny <= Tolerance THEN <<rw>> ELSE <<>>,
                      depth_dim |-> IF b.minx <= Tolerance THEN <<rd>> ELSE <<>>] >>
                  \o Annotate(heap, rooms, k + 1)

\* The orders a caller passes a list in: as it is, rotated, and each of
\* these reversed (every order of a list of up to three rooms).
Orders(s) ==
  LET n == Len(s)
      Rotated(k) == [i \in 1..n |-> s[((i + k - 1) % n) + 1]]
      Reversed(t) == [i \in 1..n |-> t[n + 1 - i]]
  IN IF n = 0 THEN { s }
     ELSE { Rotated(k) : k \in 0..(n - 1) }
            \cup { Reversed(Rotated(k)) : k \in 0..(n - 1) }

\* ------------------------------------------------------------------- state
VARIABLES
  requirements,    \* the caller's Room records (rooms_req); a room is referred to by its index
  plot_size,       \* the plot of the last generate_layout call
  placed_rooms,    \* the list the last generate_layout call returned
  outcome,         \* how the last generate_layout call ended
  calls,           \* generate_layout calls made
  history,         \* what each call returned, as it was at its return
  phase,           \* where the caller and generate_ai_detailed_plan stand
  rooms,           \* generate_ai_detailed_plan's rooms argument
  drawn_segments,  \* canonical segment -> 'exterior' | 'interior'
  room_segments,   \* room name -> its canonical segments
  walls,           \* wall lines added to the modelspace
  placed_doors,    \* segments that have a door
  doors,           \* door leaves (each with its swing arc) added to the modelspace
  door_idx,        \* the item of room_segments the door loop is at
  annotations,     \* labels and dimensions added to the modelspace
  audit_ok,        \* whether doc.audit() found the document sound
  temp_file,       \* the temporary .dxf file: "absent" | "present"
  saved,           \* doc.saveas has written the document to a file
  dxf_content      \* what generate_ai_detailed_plan returned: "none" | "bytes"

layout_vars == <<requirements, plot_size, placed_rooms, outcome, calls, history>>
draft_vars == <<rooms, drawn_segments, room_segments, walls, placed_doors, doors,
                door_idx, annotations, audit_ok, temp_file, saved, dxf_content>>
vars == <<layout_vars, phase, draft_vars>>

Init ==
  /\ requirements \in RequestLists
  /\ plot_size = <<0, 0>>
  /\ placed_rooms = <<>>
  /\ outcome = "none"
  /\ calls = 0
  /\ history = <<>>
  /\ phase = "layout"
  /\ rooms = <<>>
  /\ drawn_segments = <<>>
  /\ room_segments = <<>>
  /\ walls = <<>>
  /\ placed_doors = {}
  /\ doors = <<>>
  /\ door_idx = 0
  /\ annotations = <<>>
  /\ audit_ok = TRUE
  /\ temp_file = "absent"
  /\ saved = FALSE
  /\ dxf_content = "none"

\* optimized_rooms = generate_layout((plot_w, plot_d), rooms_req, constraints)
GenerateLayout(plot) ==
  /\ phase = "layout"
  /\ LET res == Layout(plot, requirements)
     IN /\ requirements' = res.rooms
        /\ outcome' = res.outcome
        /\ placed_rooms' = IF res.outcome = "returned" THEN res.placed ELSE placed_rooms
        /\ history' = IF res.outcome = "returned"
                      THEN Append(history,
                             [placed |-> res.placed,
                              polys |-> [i \in 1..Len(res.placed) |->
                                           res.rooms[res.placed[i]].current_poly],
                              centers |-> [i \in 1..Len(res.placed) |->
                                             res.rooms[res.placed[i]].center]])
                      ELSE history
  /\ plot_size' = plot
  /\ calls' = calls + 1
  /\ UNCHANGED <<phase, draft_vars>>

\* generate_ai_detailed_plan(rooms, plot_width, plot_height, client_name), up
\* to the end of 1. SEGMENT ANALYSIS.  The caller passes the placed rooms of
\* the last layout, in any order, with that layout's plot.
SegmentAnalysis(order) ==
  /\ phase = "layout"
  /\ outcome = "returned"
  /\ LET res == AnalyseRooms([drawn |-> <<>>, rsegs |-> <<>>], requirements, order, 1,
                             plot_size[1], plot_size[2])
     IN /\ drawn_segments' = res.drawn
        /\ room_segments' = res.rsegs
  /\ rooms' = order
  /\ phase' = "walls"
  /\ UNCHANGED <<layout_vars, walls, placed_doors, doors, door_idx, annotations,
                 audit_ok, temp_file, saved, dxf_content>>

\* 2. DRAW WALLS
DrawWalls ==
  /\ phase = "walls"
  /\ walls' = DrawAllWalls(drawn_segments, 1, plot_size[1], plot_size[2])
  /\ door_idx' = 1
  /\ phase' = "doors"
  /\ UNCHANGED <<layout_vars, rooms, drawn_segments, room_segments, placed_doors,
                 doors, annotations, audit_ok, temp_file, saved, dxf_content>>

\* 3. INTERIOR DOORS: one iteration of the loop over room_segments.
DoorStep ==
  /\ phase = "doors"
  /\ door_idx <= Len(room_segments)
  /\ LET item == room_segments[door_idx]
         segments == SortByLength(<<>>, item.val)
         hit == TryDoors(drawn_segments, placed_doors, segments, 1)
     IN /\ room_segments' = [room_segments EXCEPT ![door_idx].val = segments]
        /\ IF hit = <<>>
           THEN UNCHANGED <<placed_doors, doors>>
           ELSE /\ placed_doors' = placed_doors \cup {hit[1]}
                /\ doors' = Append(doors, DoorLeaf(hit[1][1], hit[1][2], DoorWidth))
  /\ door_idx' = door_idx + 1
  /\ UNCHANGED <<layout_vars, phase, rooms, drawn_segments, walls, annotations,
                 audit_ok, temp_file, saved, dxf_content>>

\* 4. ANNOTATIONS, the north arrow and doc.audit(), whose verdict is the
\* library's.
AnnotateAndAudit(ok) ==
  /\ phase = "doors"
  /\ door_idx > Len(room_segments)
  /\ annotations' = Annotate(requirements, rooms, 1)
  /\ audit_ok' = ok
  /\ phase' = "save"
  /\ UNCHANGED <<layout_vars, rooms, drawn_segments, room_segments, walls,
                 placed_doors, doors, door_idx, temp_file, saved, dxf_content>>

\* doc.saveas(temp_path), the read of the file, its removal in the finally
\* clause, and the return of the bytes.
SaveAndReturn ==
  /\ phase = "save"
  /\ saved' = TRUE
  /\ temp_file' = "absent"
  /\ dxf_content' = "bytes"
  /\ phase' = "done"
  /\ UNCHANGED <<layout_vars, rooms, drawn_segments, room_segments, walls,
                 placed_doors, doors, door_idx, annotations, audit_ok>>

\* One run of the application: one layout, then its drawing.
Next ==
  \/ calls = 0 /\ \E plot \in Plots : GenerateLayout(plot)
  \/ phase = "layout" /\ \E order \in Orders(placed_rooms) : SegmentAnalysis(order)
  \/ DrawWalls
  \/ DoorStep
  \/ \E ok \in BOOLEAN : AnnotateAndAudit(ok)
  \/ SaveAndReturn

Spec == Init /\ [][Next]_vars

\* The plots of a caller that plans the same Room records again and again:
\* 12.0 x 15.0 and 10.0 x 10.0 metres.
CallPlots == { <<12 * Scale, 15 * Scale>>, <<10 * Scale, 10 * Scale>> }

NextCalls == calls < MaxCalls /\ \E plot \in CallPlots : GenerateLayout(plot)

SpecCalls == Init /\ [][NextCalls]_vars

\* ================================================================== claims
\* The edges of a box as generate_layout passed them to box().
Left(poly) == poly[3][1]
Right(poly) == poly[1][1]
Bottom(poly) == poly[1][2]
Top(poly) == poly[2][2]

\* The rectangle of the i-th placed room.
PlacedPoly(i) == requirements[placed_rooms[i]].current_poly

\* generate_layout has returned a layout.
LayoutDone == calls >= 1 /\ outcome = "returned"

PositiveRooms ==
  \A i \in 1..Len(requirements) :
     /\ requirements[i].min_w > 0 /\ requirements[i].max_w > 0
     /\ requirements[i].min_d > 0 /\ requirements[i].max_d > 0

PositivePlot == plot_size[1] > 0 /\ plot_size[2] > 0

\* A non-empty list of rooms of positive sizes on a plot of positive size.
ValidInput == Len(requirements) > 0 /\ PositiveRooms /\ PositivePlot

\* The placed rooms lo..hi stand side by side from x = 0 to x = plot width,
\* each spanning y0..y1.
RowChain(lo, hi, y0, y1) ==
  lo <= hi =>
    /\ Left(PlacedPoly(lo)) = 0
    /\ Right(PlacedPoly(hi)) = plot_size[1]
    /\ \A i \in lo..hi :
         /\ Bottom(PlacedPoly(i)) = y0
         /\ Top(PlacedPoly(i)) = y1
         /\ Left(PlacedPoly(i)) <= Right(PlacedPoly(i))
         /\ i > lo => Left(PlacedPoly(i)) = Right(PlacedPoly(i - 1))

\* Two boxes share interior points.
InteriorsMeet(a, b) ==
  LET lo(u, v) == IF u > v THEN u ELSE v
      hi(u, v) == IF u < v THEN u ELSE v
  IN /\ lo(Left(a), Left(b)) < hi(Right(a), Right(b))
     /\ lo(Bottom(a), Bottom(b)) < hi(Top(a), Top(b))

PlacedArea ==
  SumSeq([i \in 1..Len(placed_rooms) |->
            (Right(PlacedPoly(i)) - Left(PlacedPoly(i)))
              * (Top(PlacedPoly(i)) - Bottom(PlacedPoly(i)))])

\* C1. Full coverage: for a non-empty list of rooms of positive sizes on a
\* plot of positive size, the placed rectangles form a south row spanning
\* y in [0, h] and a north row spanning y in [h, plot depth], each row a
\* chain of boxes from x = 0 to x = plot width in which every left edge is
\* the previous right edge; no two interiors meet, every box lies in the
\* plot, and the areas sum to plot width * plot depth.  A layout with one
\* empty row has the other row span the whole depth.
C1_FullCoverage ==
  (LayoutDone /\ ValidInput) =>
    LET n == Len(placed_rooms)
        heights == {0, plot_size[2]}
                     \cup { Top(PlacedPoly(i)) : i \in 1..n }
                     \cup { Bottom(PlacedPoly(i)) : i \in 1..n }
    IN /\ n = Len(requirements)
       /\ \E k \in 0..n : \E h \in heights :
            /\ 0 <= h /\ h <= plot_size[2]
            /\ k = 0 => h = 0
            /\ k = n => h = plot_size[2]
            /\ RowChain(1, k, 0, h)
            /\ RowChain(k + 1, n, h, plot_size[2])
       /\ \A i, j \in 1..n : i # j => ~InteriorsMeet(PlacedPoly(i), PlacedPoly(j))
       /\ PlacedArea = plot_size[1] * plot_size[2]

\* C1's case: a valid layout of several rooms that all fall in the north
\* row, which then spans the whole plot depth.
C1_Witness ==
  /\ LayoutDone /\ ValidInput
  /\ Len(placed_rooms) >= 2
  /\ \A i \in 1..Len(placed_rooms) :
       /\ IsTopRoom(requirements[placed_rooms[i]].name)
       /\ Bottom(PlacedPoly(i)) = 0 /\ Top(PlacedPoly(i)) = plot_size[2]
  /\ PlacedArea = plot_size[1] * plot_size[2]

\* The placed rooms of the north (top) row and of the south row, in order.
NorthRow == SelectSeq(placed_rooms, LAMBDA r : IsTopRoom(requirements[r].name))
SouthRow == SelectSeq(placed_rooms, LAMBDA r : ~IsTopRoom(requirements[r].name))

\* The sum of the representative widths of a row.
RowRepWidth(row) ==
  SumSeq([k \in 1..Len(row) |->
            RoundDiv(requirements[row[k]].min_w + requirements[row[k]].max_w, 2)])

\* (repWidth_i / sumRepWidths) * plotWidth of the k-th room of a row
ProportionalWidth(row, k) ==
  RoundDiv(RoundDiv(requirements[row[k]].min_w + requirements[row[k]].max_w, 2)
             * plot_size[1],
           RowRepWidth(row))

RowSnapped(row) ==
  row # <<>> =>
    /\ Left(requirements[row[1]].current_poly) = 0
    /\ Right(requirements[row[Len(row)]].current_poly) = plot_size[1]
    /\ \A k \in 1..(Len(row) - 1) :
         Right(requirements[row[k]].current_poly)
           = Left(requirements[row[k]].current_poly) + ProportionalWidth(row, k)

\* C8. Last-room snap: in every non-empty row of every generated layout the
\* first room's left edge is 0 and the last room's right edge is the plot
\* width; every room but the last has its right edge at its left edge plus
\* (repWidth / sumRepWidths) * plotWidth.
C8_LastRoomSnap == LayoutDone => (RowSnapped(SouthRow) /\ RowSnapped(NorthRow))

\* C8's case: a row of several rooms whose proportional widths do not add up
\* to the plot width, the last room's right edge being the plot width all
\* the same.
C8_Witness ==
  /\ LayoutDone /\ ValidInput
  /\ \E row \in {SouthRow, NorthRow} :
       /\ Len(row) >= 2
       /\ Right(requirements[row[Len(row)]].current_poly) = plot_size[1]
       /\ Left(requirements[row[Len(row)]].current_poly)
            + ProportionalWidth(row, Len(row)) # plot_size[1]

\* Every requested room has been given a rectangle.
AllPlaced == \A i \in 1..Len(requirements) : requirements[i].current_poly # NoPoly

OnGround == SelectSeq(placed_rooms, LAMBDA r : Bottom(requirements[r].current_poly) = 0)
Raised == SelectSeq(placed_rooms, LAMBDA r : Bottom(requirements[r].current_poly) # 0)

NamesOf(row) == [k \in 1..Len(row) |-> requirements[row[k]].name]

RowWidth(row) ==
  SumSeq([k \in 1..Len(row) |->
            Right(requirements[row[k]].current_poly)
              - Left(requirements[row[k]].current_poly)])

PolyOf(name) ==
  requirements[CHOOSE i \in 1..Len(requirements) : requirements[i].name = name].current_poly

\* The example scenario: plot 12.0 x 15.0, rooms [Living, Kitchen,
\* MasterBed, Toilet] with the stated size ranges, planned.
IsExample ==
  /\ LayoutDone
  /\ plot_size = <<12 * Scale, 15 * Scale>>
  /\ Len(requirements) = 4
  /\ NamesOf([i \in 1..4 |-> i]) = <<"Living", "Kitchen", "MasterBed", "Toilet">>
  /\ <<requirements[1].min_w, requirements[1].min_d,
       requirements[1].max_w, requirements[1].max_d>> = <<10800, 12000, 16200, 18000>>
  /\ <<requirements[2].min_w, requirements[2].min_d,
       requirements[2].max_w, requirements[2].max_d>> = <<7200, 8400, 10800, 12600>>
  /\ <<requirements[3].min_w, requirements[3].min_d,
       requirements[3].max_w, requirements[3].max_d>> = <<9600, 10800, 14400, 16200>>
  /\ <<requirements[4].min_w, requirements[4].min_d,
       requirements[4].max_w, requirements[4].max_d>> = <<4320, 6000, 6480, 9000>>

\* The canonical segments two rooms both have in the room-segment index.
SharedSegments(a, b) ==
  IF DictHas(room_segments, a) /\ DictHas(room_segments, b)
  THEN { DictGet(room_segments, a)[i] : i \in 1..Len(DictGet(room_segments, a)) }
         \cap { DictGet(room_segments, b)[i] : i \in 1..Len(DictGet(room_segments, b)) }
  ELSE {}

\* C5, as amended.  In the example scenario the south row is [MasterBed,
\* Kitchen] and the north row is [Toilet, Living]; each row's rendered
\* widths total 12.0; Toilet's right edge is Living's left edge, and once
\* the segments are analysed these two rooms share exactly one canonical
\* segment, an interior one.
C5_ExampleRows ==
  IsExample =>
    /\ NamesOf(OnGround) = <<"MasterBed", "Kitchen">>
    /\ NamesOf(Raised) = <<"Toilet", "Living">>
    /\ RowWidth(OnGround) = 12 * Scale
    /\ RowWidth(Raised) = 12 * Scale
    /\ Right(PolyOf("Toilet")) = Left(PolyOf("Living"))
    /\ phase # "layout" =>
         /\ Cardinality(SharedSegments("Toilet", "Living")) = 1
         /\ \A seg \in SharedSegments("Toilet", "Living") :
              DictGet(drawn_segments, seg) = "interior"

\* C5's case: the example scenario planned and drawn to the end.
C5_Witness == IsExample /\ phase = "done" /\ Cardinality(placed_doors) >= 1

\* C5 as the claim states it: Toilet and MasterBed in the south row, Living
\* and Kitchen in the north row, each row 12.0 wide, Toilet's right edge at
\* MasterBed's left edge.
C5_AsClaimed ==
  IsExample =>
    /\ { NamesOf(OnGround)[k] : k \in 1..Len(OnGround) } = {"Toilet", "MasterBed"}
    /\ { NamesOf(Raised)[k] : k \in 1..Len(Raised) } = {"Living", "Kitchen"}
    /\ RowWidth(OnGround) = 12 * Scale
    /\ RowWidth(Raised) = 12 * Scale
    /\ Right(PolyOf("Toilet")) = Left(PolyOf("MasterBed"))

\* The walls have been drawn.
WallsDrawn == phase \in {"doors", "save", "done"}

InsidePlot(pt) ==
  /\ 0 <= pt[1] /\ pt[1] <= plot_size[1]
  /\ 0 <= pt[2] /\ pt[2] <= plot_size[2]

\* The sides of the plot a segment lies on (both endpoints within the
\* tolerance of the side's line), each with its inward direction.
SidesOf(p1, p2) ==
  { side \in { [name |-> "west", dir |-> <<1, 0>>], [name |-> "east", dir |-> <<-1, 0>>],
               [name |-> "south", dir |-> <<0, 1>>], [name |-> "north", dir |-> <<0, -1>>] } :
      CASE side.name = "west" -> Abs(p1[1]) <= Tolerance /\ Abs(p2[1]) <= Tolerance
        [] side.name = "east" -> /\ Abs(p1[1] - plot_size[1]) <= Tolerance
                                 /\ Abs(p2[1] - plot_size[1]) <= Tolerance
        [] side.name = "south" -> Abs(p1[2]) <= Tolerance /\ Abs(p2[2]) <= Tolerance
        [] side.name = "north" -> /\ Abs(p1[2] - plot_size[2]) <= Tolerance
                                  /\ Abs(p2[2] - plot_size[2]) <= Tolerance }

\* C3. Exterior walls grow inward: in the drawing of a valid layout, every
\* exterior wall has the boundary edge as its outer line and, as its inner
\* line, that edge moved by the wall thickness in the inward direction of a
\* plot side the segment lies on; both ends of the inner line are inside
\* the plot.
C3_ExteriorWallsGrowInward ==
  (WallsDrawn /\ ValidInput) =>
    \A k \in 1..Len(walls) :
       walls[k].type = "exterior" =>
         /\ walls[k].o1 = walls[k].seg[1] /\ walls[k].o2 = walls[k].seg[2]
         /\ \E side \in SidesOf(walls[k].seg[1], walls[k].seg[2]) :
              /\ walls[k].i1 = << walls[k].o1[1] + side.dir[1] * WALL_THICKNESS,
                                  walls[k].o1[2] + side.dir[2] * WALL_THICKNESS >>
              /\ walls[k].i2 = << walls[k].o2[1] + side.dir[1] * WALL_THICKNESS,
                                  walls[k].o2[2] + side.dir[2] * WALL_THICKNESS >>
         /\ InsidePlot(walls[k].i1) /\ InsidePlot(walls[k].i2)

\* The segments of the k-th item of the room-segment index.
SegmentsOfItem(k) == { room_segments[k].val[i] : i \in 1..Len(room_segments[k].val) }

\* C4. At most one door per segment: at every point of the door pass and
\* after it, no segment has two door leaves; the segments with a door are
\* the placed-door set, and all of them are interior.
C4_AtMostOneDoor ==
  /\ \A i, j \in 1..Len(doors) : i # j => doors[i].seg # doors[j].seg
  /\ { doors[i].seg : i \in 1..Len(doors) } = placed_doors
  /\ \A seg \in placed_doors :
       DictHas(drawn_segments, seg) /\ DictGet(drawn_segments, seg) = "interior"

\* C4's case: the door pass has ended over at least three rooms, and a
\* segment that two rooms contribute has a door.
C4_Witness ==
  /\ phase = "done"
  /\ Len(room_segments) >= 3
  /\ \E seg \in placed_doors :
       \E a, b \in 1..Len(room_segments) :
          a # b /\ seg \in SegmentsOfItem(a) /\ seg \in SegmentsOfItem(b)

\* The raw boundary edges of the rooms being drawn: room reference, first
\* and second endpoint.
RoomEdges ==
  { <<rooms[k], i>> : k \in 1..Len(rooms), i \in 1..4 }
EdgeStart(e) == requirements[e[1]].current_poly[e[2]]
EdgeEnd(e) == requirements[e[1]].current_poly[e[2] + 1]
EdgeCanon(e) == CanonicalSegment(EdgeStart(e), EdgeEnd(e))
EdgeOnBorder(e) == SidesOf(EdgeStart(e), EdgeEnd(e)) # {}

\* C6. Exterior stickiness: after the segment analysis of a valid layout, in
\* whatever order the rooms were passed, the classified segments are the
\* canonical forms of the rooms' edges, and a segment is exterior exactly
\* when some edge contributing it lies wholly on a plot border line (within
\* 0.01); otherwise it is interior.
C6_ExteriorStickiness ==
  (phase # "layout" /\ ValidInput) =>
    /\ { drawn_segments[k].key : k \in 1..Len(drawn_segments) }
         = { EdgeCanon(e) : e \in RoomEdges }
    /\ \A k \in 1..Len(drawn_segments) :
         /\ drawn_segments[k].val \in {"exterior", "interior"}
         /\ drawn_segments[k].val = "exterior"
              <=> \E e \in RoomEdges :
                     EdgeCanon(e) = drawn_segments[k].key /\ EdgeOnBorder(e)

\* C6's case: a segment ends exterior although the first room processed
\* contributes it only by edges that do not lie on a border; a later room
\* contributes it by an edge on the border.
C6_Witness ==
  /\ phase # "layout" /\ ValidInput /\ Len(rooms) >= 2
  /\ \E k \in 1..Len(drawn_segments) :
       /\ drawn_segments[k].val = "exterior"
       /\ \E i \in 1..4 : /\ EdgeCanon(<<rooms[1], i>>) = drawn_segments[k].key
                          /\ ~EdgeOnBorder(<<rooms[1], i>>)
       /\ \A i \in 1..4 : EdgeCanon(<<rooms[1], i>>) = drawn_segments[k].key
                            => ~EdgeOnBorder(<<rooms[1], i>>)
       /\ \E e \in RoomEdges : EdgeCanon(e) = drawn_segments[k].key /\ EdgeOnBorder(e)

\* C7. A failed audit is fatal: when doc.audit() has found the document
\* unsound, no file is written and no document bytes are returned.
C7_FailedAuditIsFatal ==
  (phase \in {"save", "done"} /\ ~audit_ok) => (~saved /\ dxf_content = "none")

\* C9. Placed rooms are immutable across calls: the rectangle and the
\* centre of every room a generate_layout call returned are still what they
\* were when that call returned.
C9_PlacedRoomsImmutable ==
  \A k \in 1..Len(history) :
     \A i \in 1..Len(history[k].placed) :
        /\ requirements[history[k].placed[i]].current_poly = history[k].polys[i]
        /\ requirements[history[k].placed[i]].center = history[k].centers[i]

\* The door loop is past the k-th item of the room-segment index.
DoorPassPast(k) == (phase = "doors" /\ door_idx > k) \/ phase \in {"save", "done"}

\* C10, as amended.  A door is placed on a segment only if the segment is at
\* least doorWidth + margin (1.1) long, a segment of exactly that length
\* included; a shorter segment gets no door and does not enter the
\* placed-door set, and a room that ends its turn with no door on any of its
\* segments has no interior segment of length 1.1 or more.
C10_DoorLengthThreshold ==
  /\ \A i \in 1..Len(doors) : SegLength(doors[i].seg) >= DoorWidth + DoorMargin
  /\ \A seg \in placed_doors : SegLength(seg) >= DoorWidth + DoorMargin
  /\ \A k \in 1..Len(room_segments) :
       (DoorPassPast(k) /\ SegmentsOfItem(k) \cap placed_doors = {}) =>
          \A seg \in SegmentsOfItem(k) :
             DictGet(drawn_segments, seg) = "interior"
               => SegLength(seg) < DoorWidth + DoorMargin

\* C10's case: a segment exactly 1.1 long has a door, and a room has ended
\* its turn without a door, its interior segments all being shorter.
C10_Witness ==
  /\ \E i \in 1..Len(doors) : SegLength(doors[i].seg) = DoorWidth + DoorMargin
  /\ \E k \in 1..Len(room_segments) :
       /\ DoorPassPast(k)
       /\ SegmentsOfItem(k) \cap placed_doors = {}
       /\ \E seg \in SegmentsOfItem(k) : DictGet(drawn_segments, seg) = "interior"

\* C10 as the claim states it: every segment with a door is strictly longer
\* than doorWidth + margin.
C10_AsClaimed ==
  /\ \A i \in 1..Len(doors) : SegLength(doors[i].seg) > DoorWidth + DoorMargin
  /\ \A seg \in placed_doors : SegLength(seg) > DoorWidth + DoorMargin

\* The names of the rooms passed to the drafting engine that have a
\* rectangle, in the order passed, each name at its first occurrence.
NamesInTurnOrder ==
  LET name(i) == requirements[rooms[i]].name
      idx == SelectSeq([i \in 1..Len(rooms) |-> i],
                       LAMBDA i : /\ requirements[rooms[i]].current_poly # NoPoly
                                  /\ \A j \in 1..(i - 1) : name(j) # name(i))
  IN [k \in 1..Len(idx) |-> name(idx[k])]

\* The segments of the k-th item of the index a door can go on now:
\* interior, without a door, and at least doorWidth + margin long.
Eligible(k) ==
  { seg \in SegmentsOfItem(k) :
      /\ DictGet(drawn_segments, seg) = "interior"
      /\ seg \notin placed_doors
      /\ SegLength(seg) >= DoorWidth + DoorMargin }

\* A step of the door loop: the turn of the item at door_idx.
DoorTurn == phase = "doors" /\ door_idx' = door_idx + 1

\* What a turn does: no door when the item has no eligible segment,
\* otherwise one more door, on an eligible segment of maximal length.
OneDoorOnLongestEligible ==
  LET E == Eligible(door_idx)
  IN IF E = {}
     THEN doors' = doors /\ placed_doors' = placed_doors
     ELSE /\ Len(doors') = Len(doors) + 1
          /\ SubSeq(doors', 1, Len(doors)) = doors
          /\ \E seg \in E :
               /\ \A other \in E : SegLength(other) <= SegLength(seg)
               /\ doors'[Len(doors')].seg = seg
               /\ placed_doors' = placed_doors \cup {seg}

HasZeroSizeRoom ==
  \E i \in 1..Len(requirements) :
     RepWidth(requirements[i]) = 0 \/ RepDepth(requirements[i]) = 0

\* C12. Zero-size rooms do not fail: a call with a non-empty room list in
\* which some room has representative width or depth zero returns a
\* rectangle for every room and raises no error, and each room of
\* representative width or depth zero has a rectangle of area zero.
C12_ZeroSizeRoomsDoNotFail ==
  (calls >= 1 /\ requirements # <<>> /\ HasZeroSizeRoom) =>
    /\ outcome = "returned"
    /\ Len(placed_rooms) = Len(requirements)
    /\ \A i \in 1..Len(requirements) :
         LET room == requirements[i]
         IN /\ room.current_poly # NoPoly
            /\ (RepWidth(room) = 0 \/ RepDepth(room) = 0) =>
                 (Right(room.current_poly) - Left(room.current_poly))
                   * (Top(room.current_poly) - Bottom(room.current_poly)) = 0

\* The name, lower-cased, contains the keyword.
NameHas(r, keyword) == Contains(Lower(requirements[r].name), keyword)
HasToilet(r) == NameHas(r, <<"t","o","i","l","e","t">>)
HasMaster(r) == NameHas(r, <<"m","a","s","t","e","r">>)
HasLiving(r) == NameHas(r, <<"l","i","v","i","n","g">>)
HasKitchen(r) == NameHas(r, <<"k","i","t","c","h","e","n">>)

\* The key as the claim states it: toilet or master 0, else living or
\* kitchen 1, else 2.
ClaimedKey(r) ==
  IF HasToilet(r) \/ HasMaster(r) THEN 0
  ELSE IF HasLiving(r) \/ HasKitchen(r) THEN 1
  ELSE 2

\* The key with 'living' taking precedence over 'master': 0 for toilet, and
\* for master without living; 1 for living without toilet, and for kitchen
\* without toilet and master; 2 otherwise.
PrecedenceKey(r) ==
  IF HasToilet(r) \/ (HasMaster(r) /\ ~HasLiving(r)) THEN 0
  ELSE IF HasLiving(r) \/ HasKitchen(r) THEN 1
  ELSE 2

\* The position of room r in the returned list.
PlacedAt(r) == CHOOSE i \in 1..Len(placed_rooms) : placed_rooms[i] = r

\* Rooms r and s are in the same row.
SameRow(r, s) == IsTopRoom(requirements[r].name) = IsTopRoom(requirements[s].name)

\* Room r stands left of room s: it comes first in the returned list and
\* ends where s begins or before.
LeftOf(r, s) ==
  /\ PlacedAt(r) < PlacedAt(s)
  /\ Right(requirements[r].current_poly) <= Left(requirements[s].current_poly)

\* generate_layout has just returned a layout; nothing has been drawn yet.
JustReturned == LayoutDone /\ phase = "layout"

\* C13, as amended.  In each row of a returned layout the rooms stand, left
\* to right, in input order stably sorted by the key that is 0 for a name
\* with 'toilet' or with 'master' but not 'living', 1 for any other name
\* with 'living' or 'kitchen', and 2 otherwise: of two rooms of a row, the
\* one with the smaller key, or with the same key and earlier in the input,
\* is left of the other.
C13_WithinRowOrder ==
  JustReturned =>
    /\ { placed_rooms[i] : i \in 1..Len(placed_rooms) } = 1..Len(requirements)
    /\ \A r, s \in 1..Len(requirements) :
         ( /\ r # s /\ SameRow(r, s)
           /\ \/ PrecedenceKey(r) < PrecedenceKey(s)
              \/ PrecedenceKey(r) = PrecedenceKey(s) /\ r < s )
           => LeftOf(r, s)

\* C13's case: in a layout returned for a plot of positive size a room
\* whose name has both 'master' and 'living' stands right of a room that
\* precedes it in the input with key 1, and a toilet stands left of both
\* although it follows in the input.
C13_Witness ==
  /\ JustReturned /\ PositivePlot
  /\ \E r, s, t \in 1..Len(requirements) :
       /\ HasMaster(s) /\ HasLiving(s)
       /\ r < s /\ SameRow(r, s) /\ PrecedenceKey(r) = 1 /\ LeftOf(r, s)
       /\ HasToilet(t) /\ r < t /\ SameRow(r, t) /\ LeftOf(t, r) /\ LeftOf(t, s)

\* C13 as the claim states it: the rooms of a row stand in input order
\* stably sorted by the key that is 0 for every name with 'toilet' or
\* 'master'.
C13_AsClaimed ==
  JustReturned =>
    \A r, s \in 1..Len(requirements) :
       ( /\ r # s /\ SameRow(r, s)
         /\ \/ ClaimedKey(r) < ClaimedKey(s)
            \/ ClaimedKey(r) = ClaimedKey(s) /\ r < s )
         => LeftOf(r, s)

\* The rooms passed to the drafting engine that have a rectangle.
DrawnRooms == { k \in 1..Len(rooms) : requirements[rooms[k]].current_poly # NoPoly }

\* C14. The per-room segment index is complete: once the segment analysis
\* is done, the index has one entry for each room that has a rectangle (so
\* the door pass has one turn for each), and every such room has an entry
\* under its name that holds the canonical forms of its four boundary
\* edges; two rooms of the same name included.
C14_SegmentIndexComplete ==
  phase \in {"walls", "doors", "save", "done"} =>
    /\ Len(room_segments) = Cardinality(DrawnRooms)
    /\ \A k \in DrawnRooms :
         \E i \in 1..Len(room_segments) :
            /\ room_segments[i].key = requirements[rooms[k]].name
            /\ Len(room_segments[i].val) = 4
            /\ SegmentsOfItem(i) = { EdgeCanon(<<rooms[k], e>>) : e \in 1..4 }

====
